---- MODULE Spec2Model ----
(***************************************************************************)
(* Model of fpl::BulkSplineEvaluator (src/src/math/bulk_spline_evaluator   *)
(* .cpp): the structure-of-arrays store of spline playback state, the bulk *)
(* advance of all cursors with its two strategies, the re-initialisation   *)
(* of a cubic when a cursor leaves its segment, and the evaluation with    *)
(* clamping or modular normalisation.                                      *)
(*                                                                         *)
(* Floats are modelled as integers (no rounding).  The collaborators whose *)
(* code is not part of the modelled file (CompactSpline, Range,            *)
(* CubicCurve, the inline accessors of the class header) are modelled from *)
(* the design document and are marked as such where they are defined.      *)
(***************************************************************************)
EXTENDS Integers, Sequences, FiniteSets, TLC

VARIABLES
  sources_,       \* [0..n-1 -> [spline, x_index, repeat]]
  y_ranges_,      \* [0..n-1 -> [valid_y: [start, end], modular_arithmetic]]
  cubic_xs_,      \* [0..n-1 -> Int]   cursor inside the loaded segment
  cubic_x_ends_,  \* [0..n-1 -> Int]   length of the loaded segment
  cubics_,        \* [0..n-1 -> <<c0, c1, c2, c3>>]
  ys_,            \* [0..n-1 -> Int]   last evaluated value
  scratch_,       \* [0..2n-1 -> 0..255]  the bytes of the n 16-bit entries
  optimization_,  \* "C", "Neon" or "Test": the bulk implementation selected
  bigEndian,      \* byte order of the platform (fixed for a behaviour)
  env,            \* the caller: the splines that exist and the sizes it uses
  last            \* the last call made, its arguments and assertion results

vars == <<sources_, y_ranges_, cubic_xs_, cubic_x_ends_, cubics_, ys_,
          scratch_, optimization_, bigEndian, env, last>>

----------------------------------------------------------------------------
(* Bounds of the model *)

\* Largest number of indices the caller of the multi-index store asks for.
MaxIndices == 2

\* Largest cursor value (cubic_xs_) a frame may produce.
MaxX == 4

\* Largest delta_x passed to AdvanceFrame.
MaxDelta == 2

----------------------------------------------------------------------------
(* Collaborators: CompactSpline *)

NULL == "nullptr"

Infinity == 1000000

kInvalidSplineIndex == 65535

kAfterSplineIndex == 65533

\* A spline is its segments: the length in x and the four coefficients of
\* the cubic of each.  The first node is at x = 0.
SplineSkip ==
  [lens  |-> <<1, 1, 2>>,
   polys |-> << <<2, 3, 0, 0>>, <<5, -1, 0, 0>>, <<4, 0, 3, -1>> >>]

SplineOne ==
  [lens  |-> <<2>>,
   polys |-> << <<1, 12, 0, 0>> >>]

SplineConst ==
  [lens  |-> <<1, 1, 1>>,
   polys |-> << <<25, 0, 0, 0>>, <<2, 0, 0, 0>>, <<-7, 0, 0, 0>> >>]

SplineTwo ==
  [lens  |-> <<1, 1>>,
   polys |-> << <<-2, 3, 0, 0>>, <<1, 5, 0, 0>> >>]

SplineData(sp) ==
  CASE sp = "skip"  -> SplineSkip
    [] sp = "one"   -> SplineOne
    [] sp = "const" -> SplineConst
    [] sp = "two"   -> SplineTwo

NumSegments(sp) == Len(SplineData(sp).lens)

RECURSIVE NodeX(_, _)
NodeX(sp, k) == IF k = 0 THEN 0 ELSE NodeX(sp, k - 1) + SplineData(sp).lens[k]

LengthX(sp) == NodeX(sp, NumSegments(sp))

\* The segment covering x, searching forward from segment 'guess'; the
\* sentinel kAfterSplineIndex when there is none.
IndexForX(sp, x, guess) ==
  LET found == {k \in 0..(NumSegments(sp) - 1) :
                  k >= guess /\ NodeX(sp, k) <= x /\ x < NodeX(sp, k + 1)}
  IN  IF found = {} THEN kAfterSplineIndex
      ELSE CHOOSE k \in found : \A j \in found : k <= j

RangeX(sp, x_index) ==
  IF x_index = kAfterSplineIndex
  THEN [start |-> LengthX(sp), end |-> Infinity]
  ELSE [start |-> NodeX(sp, x_index), end |-> NodeX(sp, x_index + 1)]

----------------------------------------------------------------------------
(* Collaborators: CubicCurve and Range *)

ZeroCubic == <<0, 0, 0, 0>>

Evaluate(c, x) == c[1] + x * (c[2] + x * (c[3] + x * c[4]))

\* The cubic of a segment; past the end of the spline, the constant cubic
\* holding the spline's last value.
CreateCubicInit(sp, x_index) ==
  IF x_index = kAfterSplineIndex
  THEN LET k == NumSegments(sp)
       IN  <<Evaluate(SplineData(sp).polys[k], SplineData(sp).lens[k]), 0, 0, 0>>
  ELSE SplineData(sp).polys[x_index + 1]

Length(r) == r.end - r.start

Contains(r, x) == r.start <= x /\ x <= r.end

Clamp(r, x) == IF x < r.start THEN r.start ELSE IF x > r.end THEN r.end ELSE x

\* At most one length towards the range [start, end).
ModularAdjustment(r, x) ==
  IF x < r.start THEN Length(r) ELSE IF x >= r.end THEN -Length(r) ELSE 0

\* Any value, brought into [start, end).
NormalizeWildValue(r, x) == r.start + ((x - r.start) % Length(r))

----------------------------------------------------------------------------
(* The store as one value, so that the methods are operators on it *)

Store ==
  [sources_ |-> sources_, y_ranges_ |-> y_ranges_, cubic_xs_ |-> cubic_xs_,
   cubic_x_ends_ |-> cubic_x_ends_, cubics_ |-> cubics_, ys_ |-> ys_,
   scratch_ |-> scratch_, ok149 |-> TRUE, ok189 |-> TRUE]

NumIndicesOf(S) == Cardinality(DOMAIN S.sources_)

NumIndices == NumIndicesOf(Store)

DefaultSource == [spline |-> NULL, x_index |-> kInvalidSplineIndex, repeat |-> FALSE]

DefaultYRange ==
  [valid_y |-> [start |-> -Infinity, end |-> Infinity],
   modular_arithmetic |-> FALSE]

Resized_Copy(col, n, default) ==
  [i \in 0..(n - 1) |->
     IF i \in DOMAIN col THEN col[i]
     ELSE IF 0 \in DOMAIN col THEN col[0] ELSE default]

\* std::vector::resize: keeps the first elements, value-initialises new ones.
Resized(col, n, default) ==
  [i \in 0..(n - 1) |-> IF i \in DOMAIN col THEN col[i] ELSE default]

\* X(index): start of the loaded segment plus the cursor.
XOf(S, index) ==
  LET s == S.sources_[index]
  IN  IF s.spline = NULL \/ s.x_index = kInvalidSplineIndex
      THEN S.cubic_xs_[index]
      ELSE RangeX(s.spline, s.x_index).start + S.cubic_xs_[index]

X(index) == XOf(Store, index)

Y(index) == ys_[index]

Valid(index) ==
  0 <= index /\ index < NumIndices /\ sources_[index].spline # NULL

----------------------------------------------------------------------------
(* Slot store *)

SetNumIndices(S, num_indices) ==
  [S EXCEPT
     !.sources_      = Resized(S.sources_, num_indices, DefaultSource),
     !.y_ranges_     = Resized(S.y_ranges_, num_indices, DefaultYRange),
     !.cubic_xs_     = Resized(S.cubic_xs_, num_indices, 0),
     !.cubic_x_ends_ = Resized(S.cubic_x_ends_, num_indices, 0),
     !.cubics_       = Resized(S.cubics_, num_indices, ZeroCubic),
     !.ys_           = Resized(S.ys_, num_indices, 0),
     !.scratch_      = Resized(S.scratch_, 2 * num_indices, 0)]

MoveIndex_NoYs(S, old_index, new_index) ==
  [S EXCEPT
     !.sources_[new_index]      = S.sources_[old_index],
     !.y_ranges_[new_index]     = S.y_ranges_[old_index],
     !.cubic_xs_[new_index]     = S.cubic_xs_[old_index],
     !.cubic_x_ends_[new_index] = S.cubic_x_ends_[old_index],
     !.cubics_[new_index]       = S.cubics_[old_index]]

MoveIndex(S, old_index, new_index) ==
  [S EXCEPT
     !.sources_[new_index]      = S.sources_[old_index],
     !.y_ranges_[new_index]     = S.y_ranges_[old_index],
     !.cubic_xs_[new_index]     = S.cubic_xs_[old_index],
     !.cubic_x_ends_[new_index] = S.cubic_x_ends_[old_index],
     !.cubics_[new_index]       = S.cubics_[old_index],
     !.ys_[new_index]           = S.ys_[old_index]]

SetYRange_Reclamp(S, index, valid_y, modular_arithmetic) ==
  [S EXCEPT !.y_ranges_[index] =
     [valid_y |-> valid_y, modular_arithmetic |-> modular_arithmetic],
            !.ys_[index] = Clamp(valid_y, S.ys_[index])]

SetYRange(S, index, valid_y, modular_arithmetic) ==
  [S EXCEPT !.y_ranges_[index] =
     [valid_y |-> valid_y, modular_arithmetic |-> modular_arithmetic]]

----------------------------------------------------------------------------
(* Bulk advance.  A buffer of Index (uint16_t) entries is its bytes: entry k *)
(* is bytes 2k and 2k+1, in the byte order of the platform.                 *)

WriteIndex(buf, k, v, be) ==
  [buf EXCEPT ![2 * k]     = IF be THEN v \div 256 ELSE v % 256,
              ![2 * k + 1] = IF be THEN v % 256 ELSE v \div 256]

ReadIndex(buf, k, be) ==
  IF be THEN buf[2 * k] * 256 + buf[2 * k + 1]
        ELSE buf[2 * k + 1] * 256 + buf[2 * k]

\* Adds delta_x to every cursor and writes the mask byte of index i at byte
\* 'masks + i' of the buffer.
UpdateCubicXsAndGetMask_C(xs, x_ends, delta_x, buf, masks) ==
  LET num_xs == Cardinality(DOMAIN xs)
      nxs    == [i \in DOMAIN xs |-> xs[i] + delta_x]
  IN  [xs  |-> nxs,
       buf |-> [b \in DOMAIN buf |->
                  IF masks <= b /\ b < masks + num_xs
                  THEN (IF nxs[b - masks] > x_ends[b - masks] THEN 255 ELSE 0)
                  ELSE buf[b]]]

\* The assembly kernel, by its contract: the result of the C version.
UpdateCubicXsAndGetMask_Neon(xs, x_ends, delta_x, buf, masks) ==
  UpdateCubicXsAndGetMask_C(xs, x_ends, delta_x, buf, masks)

\* The loop of ConvertMaskToIndices from step i on: the mask bytes are read
\* from, and the indices written to, the same buffer.  'reads' records the
\* value of mask[i] that each step read.
RECURSIVE ConvertMaskToIndices(_, _, _, _, _, _)
ConvertMaskToIndices(buf, masks, length, i, num_indices, be) ==
  IF i >= length THEN [buf |-> buf, num |-> num_indices, reads |-> << >>]
  ELSE LET written == WriteIndex(buf, num_indices, i, be)
           rest    == ConvertMaskToIndices(written, masks, length, i + 1,
                        IF written[masks + i] # 0 THEN num_indices + 1
                        ELSE num_indices,
                        be)
       IN  [rest EXCEPT !.reads = <<written[masks + i]>> \o @]

\* UpdateCubicXsAndGetMask: the kernel selected by 'optimization_'; the test
\* build keeps the result of the C version.
UpdateCubicXsAndGetMask(xs, x_ends, delta_x, buf, masks, opt) ==
  IF opt = "Neon"
  THEN UpdateCubicXsAndGetMask_Neon(xs, x_ends, delta_x, buf, masks)
  ELSE UpdateCubicXsAndGetMask_C(xs, x_ends, delta_x, buf, masks)

UpdateCubicXs_TwoSteps(xs, x_ends, delta_x, buf, opt, be) ==
  LET num_indices == Cardinality(DOMAIN xs)
      masks       == 2 * (num_indices \div 2)
      m           == UpdateCubicXsAndGetMask(xs, x_ends, delta_x, buf, masks, opt)
      c           == ConvertMaskToIndices(m.buf, masks, num_indices, 0, 0, be)
  IN  [xs |-> m.xs, buf |-> c.buf, num |-> c.num]

RECURSIVE OneStepLoop(_, _, _, _, _, _, _)
OneStepLoop(xs, x_ends, delta_x, buf, i, num_to_init, be) ==
  IF i >= Cardinality(DOMAIN xs)
  THEN [xs |-> xs, buf |-> buf, num |-> num_to_init]
  ELSE LET nxs == [xs EXCEPT ![i] = @ + delta_x]
       IN  IF nxs[i] > x_ends[i]
           THEN OneStepLoop(nxs, x_ends, delta_x,
                            WriteIndex(buf, num_to_init, i, be), i + 1,
                            num_to_init + 1, be)
           ELSE OneStepLoop(nxs, x_ends, delta_x, buf, i + 1, num_to_init, be)

UpdateCubicXs_OneStep_Twice(xs, x_ends, delta_x, buf, be) ==
  OneStepLoop(xs, x_ends, 2 * delta_x, buf, 0, 0, be)

UpdateCubicXs_OneStep(xs, x_ends, delta_x, buf, be) ==
  OneStepLoop(xs, x_ends, delta_x, buf, 0, 0, be)

\* The first 'num' entries of a buffer.
Indices(buf, num, be) == [k \in 1..num |-> ReadIndex(buf, k - 1, be)]

NoCompare == [ran |-> FALSE]

\* UpdateCubicXs: the strategy selected by 'optimization_'; in the test
\* build both are run from the same cursors and compared.
UpdateCubicXs(S, delta_x, opt, be) ==
  LET xs    == S.cubic_xs_
      ends  == S.cubic_x_ends_
      blank == [b \in DOMAIN S.scratch_ |-> 0]
      one   == UpdateCubicXs_OneStep(xs, ends, delta_x,
                                     IF opt = "Test" THEN blank ELSE S.scratch_, be)
      two   == UpdateCubicXs_TwoSteps(xs, ends, delta_x, S.scratch_, opt, be)
  IN  IF opt = "C"
      THEN [S   |-> [S EXCEPT !.cubic_xs_ = one.xs, !.scratch_ = one.buf],
            num |-> one.num, cmp |-> NoCompare]
      ELSE [S   |-> [S EXCEPT !.cubic_xs_ = two.xs, !.scratch_ = two.buf],
            num |-> two.num,
            cmp |-> IF opt = "Test"
                    THEN [ran         |-> TRUE,
                          num_one     |-> one.num,
                          num_two     |-> two.num,
                          indices_one |-> Indices(one.buf, one.num, be),
                          indices_two |-> Indices(two.buf, two.num, be),
                          xs_one      |-> one.xs,
                          xs_two      |-> two.xs]
                    ELSE NoCompare]

----------------------------------------------------------------------------
(* Segment tracking and evaluation *)

\* cubic_xs_[index] = new_start_x - x_range.start()
CubicX_NoRebase(new_start_x, x_range) == new_start_x

CubicX(new_start_x, x_range) == new_start_x - x_range.start

\* The cubic of the new segment, its constant normalised for a modular range.
NormalizedCubic_Raw(init, r) == init

NormalizedCubic(init, r) ==
  IF r.modular_arithmetic
  THEN [init EXCEPT ![1] = NormalizeWildValue(r.valid_y, init[1])]
  ELSE init

\* s.repeat && x_index == kAfterSplineIndex
Wraps_Always(s, x_index) == x_index = kAfterSplineIndex

Wraps(s, x_index) == s.repeat /\ x_index = kAfterSplineIndex

InitCubic(S, index, start_x) ==
  LET s == S.sources_[index]
  IN  IF s.spline = NULL THEN S
      ELSE
        LET first       == IndexForX(s.spline, start_x, (s.x_index + 1) % 65536)
            ok          == s.x_index # first
            wrap        == Wraps(s, first)
            new_start_x == IF wrap THEN start_x - LengthX(s.spline) ELSE start_x
            x_index     == IF wrap THEN IndexForX(s.spline, new_start_x, 0)
                           ELSE first
            x_range     == RangeX(s.spline, x_index)
            init        == CreateCubicInit(s.spline, x_index)
            r           == S.y_ranges_[index]
        IN  IF s.x_index = x_index
            THEN [S EXCEPT !.ok149 = @ /\ ok]
            ELSE [S EXCEPT
                    !.ok149                = @ /\ ok,
                    !.sources_[index]      = [s EXCEPT !.x_index = x_index],
                    !.cubic_xs_[index]     = CubicX(new_start_x, x_range),
                    !.cubic_x_ends_[index] = Length(x_range),
                    !.cubics_[index]       = NormalizedCubic(init, r)]

\* y = r.valid_y.Clamp(y)
ClampedY_Unclamped(r, y) == y

ClampedY(r, y) == Clamp(r.valid_y, y)

EvaluateIndex(S, index) ==
  LET c == S.cubics_[index]
      y == Evaluate(c, S.cubic_xs_[index])
      r == S.y_ranges_[index]
  IN  IF r.modular_arithmetic
      THEN LET adjustment == ModularAdjustment(r.valid_y, y)
           IN  [S EXCEPT
                  !.cubics_[index] = [c EXCEPT ![1] = c[1] + adjustment],
                  !.ok189          = @ /\ Contains(r.valid_y, y + adjustment),
                  !.ys_[index]     = y + adjustment]
      ELSE [S EXCEPT !.ys_[index] = ClampedY(r, y)]

RECURSIVE EvaluateFrom(_, _)
EvaluateFrom(S, index) ==
  IF index >= NumIndicesOf(S) THEN S
  ELSE EvaluateFrom(EvaluateIndex(S, index), index + 1)

EvaluateCubics_C(S) == EvaluateFrom(S, 0)

\* The assembly kernel, by its contract: the result of the C version.
EvaluateCubics_Neon(S) == EvaluateCubics_C(S)

EvaluateCubics(S, opt) ==
  IF opt = "Neon" THEN EvaluateCubics_Neon(S) ELSE EvaluateCubics_C(S)

\* The loop of AdvanceFrame over the indices to re-initialise, from entry i.
RECURSIVE InitFrom(_, _, _, _)
InitFrom(S, i, num_to_init, be) ==
  IF i >= num_to_init THEN S
  ELSE LET index == ReadIndex(S.scratch_, i, be)
       IN  InitFrom(InitCubic(S, index, XOf(S, index)), i + 1, num_to_init, be)

AdvanceFrame_InitAll(S, delta_x, opt, be) ==
  LET u == UpdateCubicXs(S, delta_x, opt, be)
  IN  [S   |-> EvaluateCubics(InitFrom(u.S, 0, NumIndicesOf(S), be), opt),
       num |-> u.num,
       cmp |-> u.cmp]

AdvanceFrame(S, delta_x, opt, be) ==
  LET u == UpdateCubicXs(S, delta_x, opt, be)
  IN  [S   |-> EvaluateCubics(InitFrom(u.S, 0, u.num, be), opt),
       num |-> u.num,
       cmp |-> u.cmp]

SetSpline_KeepIndex(S, index, spline, start_x, repeat) ==
  LET bound == [S EXCEPT !.sources_[index] =
                  [spline |-> spline, x_index |-> S.sources_[index].x_index,
                   repeat |-> repeat]]
  IN  EvaluateIndex(InitCubic(bound, index, start_x), index)

SetSpline(S, index, spline, start_x, repeat) ==
  LET bound == [S EXCEPT !.sources_[index] =
                  [spline |-> spline, x_index |-> kInvalidSplineIndex,
                   repeat |-> repeat]]
  IN  EvaluateIndex(InitCubic(bound, index, start_x), index)

----------------------------------------------------------------------------
(* The calls a user of the class makes *)

Commit(S) ==
  /\ sources_'      = S.sources_
  /\ y_ranges_'     = S.y_ranges_
  /\ cubic_xs_'     = S.cubic_xs_
  /\ cubic_x_ends_' = S.cubic_x_ends_
  /\ cubics_'       = S.cubics_
  /\ ys_'           = S.ys_
  /\ scratch_'      = S.scratch_
  /\ UNCHANGED <<optimization_, bigEndian, env>>

Called(op, index, arg, S, cmp) ==
  [op |-> op, index |-> index, arg |-> arg,
   ok149 |-> S.ok149, ok189 |-> S.ok189, cmp |-> cmp]

\* A resize to the current size changes nothing and is left out.
CallSetNumIndices ==
  \E n \in env.sizes :
    /\ n # NumIndices
    /\ LET S == SetNumIndices(Store, n)
       IN  Commit(S) /\ last' = Called("SetNumIndices", 0, NumIndices, S, NoCompare)

CallMoveIndex ==
  \E move \in env.moves :
    LET old_index == move[1]
        new_index == move[2]
    IN  /\ old_index \in DOMAIN sources_ /\ new_index \in DOMAIN sources_
        /\ LET S == MoveIndex(Store, old_index, new_index)
           IN  /\ Commit(S)
               /\ last' = Called("MoveIndex", new_index, old_index, S, NoCompare)

CallSetYRange ==
  \E index \in DOMAIN sources_ : \E r \in env.ranges :
    /\ env.rangeFirst => sources_[index].spline = NULL
    /\ LET S == SetYRange(Store, index, r.valid_y, r.modular_arithmetic)
       IN  Commit(S) /\ last' = Called("SetYRange", index, 0, S, NoCompare)

CallSetSpline ==
  \E index \in DOMAIN sources_ : \E spline \in env.splines :
  \E start_x \in env.starts : \E repeat \in env.repeats :
    /\ spline = NULL => start_x = 0
    /\ spline # NULL => start_x <= LengthX(spline) + 1
    /\ LET S == SetSpline(Store, index, spline, start_x, repeat)
       IN  Commit(S) /\ last' = Called("SetSpline", index, start_x, S, NoCompare)

CallAdvanceFrame ==
  \E delta_x \in env.deltas :
    /\ \A i \in DOMAIN cubic_xs_ : cubic_xs_[i] + delta_x <= env.maxX
    /\ LET f == AdvanceFrame(Store, delta_x, optimization_, bigEndian)
       IN  Commit(f.S) /\ last' = Called("AdvanceFrame", f.num, delta_x, f.S, f.cmp)

Next ==
  \/ CallSetNumIndices
  \/ CallMoveIndex
  \/ CallSetYRange
  \/ CallSetSpline
  \/ CallAdvanceFrame

----------------------------------------------------------------------------
(* Initial states: a newly constructed evaluator holds no index *)

Empty == [i \in {} |-> 0]

UnitRange == [start |-> 0, end |-> 4]

Ranges ==
  {DefaultYRange,
   [valid_y |-> UnitRange, modular_arithmetic |-> FALSE],
   [valid_y |-> UnitRange, modular_arithmetic |-> TRUE]}

Constructed ==
  /\ sources_ = Empty /\ y_ranges_ = Empty /\ cubic_xs_ = Empty
  /\ cubic_x_ends_ = Empty /\ cubics_ = Empty /\ ys_ = Empty
  /\ scratch_ = Empty
  /\ last = [op |-> "Constructed", index |-> 0, arg |-> 0,
             ok149 |-> TRUE, ok189 |-> TRUE, cmp |-> NoCompare]

\* One index, every spline and range: the playback of a single slot.
OneSlot ==
  [sizes |-> 0..1, splines |-> {NULL, "skip", "one", "const"}, ranges |-> Ranges,
   starts |-> 0..MaxX, repeats |-> BOOLEAN, deltas |-> 0..MaxDelta,
   maxX |-> MaxX, rangeFirst |-> FALSE, moves |-> {<<0, 0>>}]

\* Several indices playing one short spline; a move of an index onto itself
\* changes nothing and is left out.
ManySlots ==
  [sizes |-> 0..MaxIndices, splines |-> {"two"},
   ranges |-> {[valid_y |-> UnitRange, modular_arithmetic |-> FALSE]},
   starts |-> {0}, repeats |-> {FALSE}, deltas |-> {1},
   maxX |-> LengthX("two"), rangeFirst |-> FALSE,
   moves |-> {m \in (0..(MaxIndices - 1)) \X (0..(MaxIndices - 1)) : m[1] # m[2]}]

Init ==
  /\ Constructed
  /\ optimization_ = "C"
  /\ bigEndian = FALSE
  /\ env = OneSlot

Spec == Init /\ [][Next]_vars

InitStore ==
  /\ Constructed
  /\ optimization_ = "C"
  /\ bigEndian = FALSE
  /\ env = ManySlots

SpecStore == InitStore /\ [][Next]_vars

InitTest ==
  /\ Constructed
  /\ optimization_ = "Test"
  /\ bigEndian \in BOOLEAN
  /\ env = ManySlots

SpecTest == InitTest /\ [][Next]_vars

\* The caller that sets the range of a slot before it binds a spline to it.
InitPlayback ==
  /\ Constructed
  /\ optimization_ = "C"
  /\ bigEndian = FALSE
  /\ env = [OneSlot EXCEPT !.rangeFirst = TRUE]

SpecPlayback == InitPlayback /\ [][Next]_vars

----------------------------------------------------------------------------
(* Observations used by the properties *)

Indexes == DOMAIN sources_

\* CurrentPosition of every index.
Position == [i \in Indexes |-> X(i)]

Active(i) == sources_[i].spline # NULL

AdvancedBy(delta_x) == last.op = "AdvanceFrame" /\ last.arg = delta_x

\* The closed x range of segment x_index holds x.
Covers(sp, x_index, x) ==
  /\ x_index # kInvalidSplineIndex
  /\ Contains(RangeX(sp, x_index), x)

----------------------------------------------------------------------------
(* C1 *)

\* C1: run from the same cursors, the mask-then-compact advance returns the
\* same count and the same list of indices as the single-pass advance, and
\* leaves the same cursors.
C1_StrategiesAgree ==
  last.cmp.ran =>
    /\ last.cmp.num_two = last.cmp.num_one
    /\ last.cmp.indices_two = last.cmp.indices_one
    /\ last.cmp.xs_two = last.cmp.xs_one

----------------------------------------------------------------------------
(* C2 *)

\* What AdvanceFrame(delta_x) must make of index i when i plays a spline
\* without repeat and its position plus delta_x is still on the spline.
C2_Tracked(i, delta_x) ==
  LET s   == sources_[i]
      sp  == s.spline
      q   == Position[i] + delta_x
      seg == sources_'[i].x_index
      lx  == q - RangeX(sp, seg).start
      fit == CreateCubicInit(sp, seg)
      c   == cubics_'[i]
      r   == y_ranges_[i]
  IN  /\ Position'[i] = q
      /\ Covers(sp, seg, q)
      /\ cubic_xs_'[i] = lx
      /\ c[2] = fit[2] /\ c[3] = fit[3] /\ c[4] = fit[4]
      /\ IF r.modular_arithmetic
         THEN /\ ys_'[i] = Evaluate(c, lx)
              /\ seg # s.x_index => (c[1] - fit[1]) % Length(r.valid_y) = 0
         ELSE /\ ys_'[i] = Clamp(r.valid_y, Evaluate(c, lx))
              /\ seg # s.x_index => c = fit

\* C2: for an active index on a spline without repeat at position p, if
\* p + delta_x is still on the spline then after AdvanceFrame(delta_x) the
\* position is p + delta_x, the loaded segment holds it (same segment, the
\* next one, or one further on), and the value comes from that segment's
\* cubic at p + delta_x - segment start.
C2_AdvanceTracksSegment ==
  [][last'.op = "AdvanceFrame" =>
       \A i \in Indexes :
         (/\ Active(i) /\ ~sources_[i].repeat
          /\ Position[i] + last'.arg <= LengthX(sources_[i].spline))
         => C2_Tracked(i, last'.arg)]_vars

\* A frame of 2 took the index from segment 0 over segment 1 into segment 2.
C2_Witness ==
  /\ AdvancedBy(2)
  /\ \E i \in Indexes :
       /\ sources_[i] = [spline |-> "skip", x_index |-> 2, repeat |-> FALSE]
       /\ cubic_xs_[i] = 0
       /\ ys_[i] = 4

----------------------------------------------------------------------------
(* C3 *)

\* C3: for an active index on a repeating spline of length L at position p,
\* if AdvanceFrame(delta_x), delta_x <= L, takes p + delta_x past the end,
\* then the position is p + delta_x - L and the loaded segment holds it.
C3_WrapsAround ==
  [][last'.op = "AdvanceFrame" =>
       \A i \in Indexes :
         LET s == sources_[i]
             L == LengthX(s.spline)
             q == Position[i] + last'.arg
         IN  (/\ Active(i) /\ s.repeat
              /\ Position[i] < L /\ cubic_xs_[i] <= cubic_x_ends_[i]
              /\ last'.arg <= L /\ q > L)
             => /\ Position'[i] = q - L
                /\ Covers(s.spline, sources_'[i].x_index, q - L)]_vars

----------------------------------------------------------------------------
(* C4 *)

\* C4: after every AssignCurve and every AdvanceFrame, the cursor of every
\* active index is inside its segment: 0 <= cubic_xs_ <= cubic_x_ends_.
C4_CursorInsideSegment ==
  last.op \in {"SetSpline", "AdvanceFrame"} =>
    \A i \in Indexes :
      Active(i) => 0 <= cubic_xs_[i] /\ cubic_xs_[i] <= cubic_x_ends_[i]

----------------------------------------------------------------------------
(* C5 *)

\* C5: right after SetSpline(index, spline, start_x, repeat) the position is
\* start_x, or start_x minus the length of the spline when start_x is at or
\* past the end of a repeating spline, and the loaded segment is the one a
\* search from segment 0 finds for that position.
C5_AssignPosition ==
  last.op = "SetSpline" =>
    LET i  == last.index
        s  == sources_[i]
        x0 == last.arg
    IN  Active(i) =>
          LET L == LengthX(s.spline)
              p == IF s.repeat /\ x0 >= L THEN x0 - L ELSE x0
          IN  /\ Position[i] = p
              /\ s.x_index = IndexForX(s.spline, p, 0)

\* A start past the end of the repeating one-segment spline, wrapped.
C5_Witness ==
  /\ last.op = "SetSpline" /\ last.arg = 3
  /\ sources_[last.index] = [spline |-> "one", x_index |-> 0, repeat |-> TRUE]
  /\ Position[last.index] = 1

----------------------------------------------------------------------------
(* C6 *)

\* C6: right after SetSpline with a start on the spline, the value is inside
\* the valid range of the index, clamped or modular.
C6_AssignValueInRange ==
  last.op = "SetSpline" =>
    LET i == last.index
        r == y_ranges_[i]
    IN  (Active(i) /\ last.arg < LengthX(sources_[i].spline))
        => Contains(r.valid_y, ys_[i])

----------------------------------------------------------------------------
(* C7 *)

\* C7: after every AdvanceFrame the value of every index whose range is not
\* modular lies in [start, end] of that range.
C7_ClampedAfterFrame ==
  last.op = "AdvanceFrame" =>
    \A i \in Indexes :
      LET r == y_ranges_[i]
      IN  (~r.modular_arithmetic /\ r.valid_y.start <= r.valid_y.end)
          => Contains(r.valid_y, ys_[i])

\* A frame after which the cubic of an index is above its range and the
\* value is the end of the range.
C7_Witness ==
  /\ last.op = "AdvanceFrame"
  /\ \E i \in Indexes :
       /\ Active(i)
       /\ y_ranges_[i] = [valid_y |-> UnitRange, modular_arithmetic |-> FALSE]
       /\ Evaluate(cubics_[i], cubic_xs_[i]) > UnitRange.end
       /\ ys_[i] = UnitRange.end

----------------------------------------------------------------------------
(* C8 *)

\* C8: in every evaluation of an index with a modular range, the value plus
\* its modular adjustment is inside the range: the assertion of
\* EvaluateIndex holds in every call.
C8_AdjustedValueInRange == last.ok189

----------------------------------------------------------------------------
(* C9 *)

IsConstant(sp) ==
  \A k \in 1..NumSegments(sp) :
    LET c == SplineData(sp).polys[k] IN c[2] = 0 /\ c[3] = 0 /\ c[4] = 0

\* C9: an index whose modular range was set before a spline of constant
\* segments was bound to it has its value inside the range after SetSpline
\* and after every later AdvanceFrame.
C9_ConstantStaysInRange ==
  \A i \in Indexes :
    (/\ Active(i) /\ IsConstant(sources_[i].spline)
     /\ y_ranges_[i].modular_arithmetic)
    => Contains(y_ranges_[i].valid_y, ys_[i])

\* A frame that wrapped a modular index back to the first constant segment,
\* whose constant 25 is outside the range.
C9_Witness ==
  /\ last.op = "AdvanceFrame" /\ last.arg > 0
  /\ \E i \in Indexes :
       /\ sources_[i] = [spline |-> "const", x_index |-> 0, repeat |-> TRUE]
       /\ y_ranges_[i].modular_arithmetic
       /\ cubic_xs_[i] = 0
       /\ ys_[i] = 1

----------------------------------------------------------------------------
(* C10 *)

Slot(i) ==
  [source |-> sources_[i], y_range |-> y_ranges_[i], x |-> cubic_xs_[i],
   x_end |-> cubic_x_ends_[i], cubic |-> cubics_[i], y |-> ys_[i]]

Slots == [i \in Indexes |-> Slot(i)]

\* C10: MoveIndex(old_index, new_index) makes every column of new_index
\* equal to what old_index held, so position, value and validity of
\* new_index are those of old_index before; every other index and the
\* number of indices are unchanged.
C10_MoveIndexCopies ==
  [][last'.op = "MoveIndex" =>
       LET a == last'.arg
           b == last'.index
       IN  /\ Indexes' = Indexes
           /\ Slots'[b] = Slots[a]
           /\ Position'[b] = Position[a]
           /\ ys_'[b] = ys_[a]
           /\ (sources_'[b].spline # NULL) = Active(a)
           /\ \A i \in Indexes : i # b => Slots'[i] = Slots[i]]_vars

\* A move of a playing index onto another index.
C10_Witness ==
  /\ last.op = "MoveIndex" /\ last.index # last.arg
  /\ Active(last.index)
  /\ cubic_xs_[last.index] > 0
  /\ ys_[last.index] # 0
  /\ Slots[last.index] = Slots[last.arg]

----------------------------------------------------------------------------
(* C11 *)

\* Indices past the largest size the caller uses, to probe Valid out of range.
Probes == 0..(MaxIndices + 1)

\* C11: after SetNumIndices(n) from size old_n, Valid(i) is false for every
\* i in [old_n, n) and for every i >= n, Valid(i) is true exactly when i is
\* in range and the slot has a spline, and the slots below min(old_n, n)
\* keep every column; this includes a store that was shrunk below playing
\* slots and grown again.
C11_ResizeInert ==
  [][last'.op = "SetNumIndices" =>
       LET old_n == last'.arg
           n     == Cardinality(DOMAIN sources_')
       IN  /\ DOMAIN sources_' = 0..(n - 1)
           /\ \A i \in Probes :
                /\ (i >= old_n => ~Valid(i)')
                /\ (Valid(i)' <=> (i < n /\ sources_'[i].spline # NULL))
           /\ \A i \in 0..(n - 1) :
                /\ (i < old_n => Slots'[i] = Slots[i])
                /\ (i >= old_n =>
                      Slots'[i] = [source |-> DefaultSource,
                                   y_range |-> DefaultYRange, x |-> 0,
                                   x_end |-> 0, cubic |-> ZeroCubic, y |-> 0])]_vars

\* The store grew from one playing slot to two: the old slot still plays and
\* the new one is inert.
C11_Witness ==
  /\ last.op = "SetNumIndices" /\ last.arg = 1
  /\ NumIndices = 2
  /\ Valid(0) /\ cubic_xs_[0] > 0
  /\ ~Valid(1) /\ ~Valid(2)

----------------------------------------------------------------------------
(* C12 *)

\* C12: AdvanceFrame re-initialises nothing for a slot without a spline
\* (fresh from SetNumIndices, or bound to a null spline after it played) and
\* leaves its value as it was before the call.
C12_InertUntouched ==
  [][last'.op = "AdvanceFrame" =>
       \A i \in Indexes :
         ~Active(i) =>
           /\ sources_'[i] = sources_[i]
           /\ cubic_x_ends_'[i] = cubic_x_ends_[i]
           /\ ys_'[i] = ys_[i]]_vars

----------------------------------------------------------------------------
(* C13 *)

\* The indices whose cursor is beyond its segment once delta_x is added.
Expired(delta_x) ==
  {i \in Indexes : cubic_xs_[i] + delta_x > cubic_x_ends_[i]}

\* 'list' holds exactly the members of 'set', in strictly ascending order.
AscendingListOf(list, set) ==
  /\ Len(list) = Cardinality(set)
  /\ {list[k] : k \in 1..Len(list)} = set
  /\ \A k \in 1..(Len(list) - 1) : list[k] < list[k + 1]

\* C13: the bulk advance adds delta_x once to the cursor of every index,
\* playing or inert, and reports index i exactly when its cursor is then
\* strictly greater than the length of its segment; the single-pass advance
\* returns those indices once each, in ascending order, never more than
\* NumIndices of them, and the mask pass marks exactly those indices.
C13_BulkAdvance ==
  [][last'.op = "AdvanceFrame" =>
       LET delta_x  == last'.arg
           advanced == [i \in Indexes |-> cubic_xs_[i] + delta_x]
           masks    == 2 * (NumIndices \div 2)
           m        == UpdateCubicXsAndGetMask_C(cubic_xs_, cubic_x_ends_,
                                                 delta_x, scratch_, masks)
           one      == UpdateCubicXs_OneStep(cubic_xs_, cubic_x_ends_, delta_x,
                                             scratch_, bigEndian)
           list     == Indices(scratch_', last'.index, bigEndian)
       IN  /\ one.xs = advanced
           /\ m.xs = advanced
           /\ \A i \in Indexes : (m.buf[masks + i] # 0) <=> (i \in Expired(delta_x))
           /\ one.num = last'.index /\ one.buf = scratch_'
           /\ AscendingListOf(list, Expired(delta_x))
           /\ Len(list) <= NumIndices
           /\ \A i \in Indexes :
                (i \notin Expired(delta_x) \/ ~Active(i))
                => cubic_xs_'[i] = advanced[i]]_vars

\* A frame in which index 1 left its segment while index 0 arrived exactly
\* at the end of its segment and was not reported.
C13_Witness ==
  /\ last.op = "AdvanceFrame" /\ last.arg > 0
  /\ NumIndices = 2
  /\ last.index = 1
  /\ Indices(scratch_, 1, bigEndian) = <<1>>
  /\ Active(0) /\ cubic_xs_[0] = cubic_x_ends_[0]

----------------------------------------------------------------------------
(* C14 *)

\* C14: an evaluation repeated at the same cursor changes nothing:
\* AdvanceFrame(0) right after an AdvanceFrame leaves every value and every
\* coefficient of every cubic as they were (the adjustment of a modular
\* index went into the constant of its cubic, so the second one is zero).
C14_EvaluationIdempotent ==
  [][(last.op = "AdvanceFrame" /\ last'.op = "AdvanceFrame" /\ last'.arg = 0) =>
       /\ ys_' = ys_
       /\ cubics_' = cubics_]_vars

----------------------------------------------------------------------------
(* C15 *)

\* C15: SetYRange(index, valid_y, modular_arithmetic) changes the range of
\* that index and nothing else: its value, cursor, segment length, cubic
\* and source stay, and so does every column of every other index.
C15_SetYRangeOnlyRange ==
  [][last'.op = "SetYRange" =>
       LET index == last'.index
       IN  /\ sources_' = sources_
           /\ cubic_xs_' = cubic_xs_
           /\ cubic_x_ends_' = cubic_x_ends_
           /\ cubics_' = cubics_
           /\ ys_' = ys_
           /\ DOMAIN y_ranges_' = DOMAIN y_ranges_
           /\ \A i \in Indexes : i # index => y_ranges_'[i] = y_ranges_[i]]_vars

\* The range of a playing index was narrowed below its value, which stays.
C15_Witness ==
  /\ last.op = "SetYRange"
  /\ NumIndices = 2
  /\ Active(last.index)
  /\ y_ranges_[last.index] = [valid_y |-> UnitRange, modular_arithmetic |-> FALSE]
  /\ ys_[last.index] > UnitRange.end

----------------------------------------------------------------------------
(* C16 *)

\* The columns of a store other than the scratch buffer.
Columns(S) ==
  [sources_ |-> S.sources_, y_ranges_ |-> S.y_ranges_,
   cubic_xs_ |-> S.cubic_xs_, cubic_x_ends_ |-> S.cubic_x_ends_,
   cubics_ |-> S.cubics_, ys_ |-> S.ys_]

\* C16: in the build that runs both implementations and compares them,
\* AdvanceFrame(delta_x) leaves every column as the reference build leaves
\* it from the same state (cursors advanced once, modular constants
\* adjusted once), and re-initialises the indices of the reference list.
C16_TestBuildAsReference ==
  [][(last'.op = "AdvanceFrame" /\ optimization_ = "Test") =>
       LET ref == AdvanceFrame(Store, last'.arg, "C", bigEndian)
       IN  /\ Columns(Store)' = Columns(ref.S)
           /\ last'.index = ref.num
           /\ Indices(scratch_', last'.index, bigEndian)
                = Indices(ref.S.scratch_, ref.num, bigEndian)]_vars

----------------------------------------------------------------------------
(* C17 *)

\* C17: whenever InitCubic runs for an index that has a spline, from
\* SetSpline or for an expired index in AdvanceFrame, the search that starts
\* one past the loaded segment does not return the loaded segment: the
\* assertion s.x_index != x_index holds in every call, also in the frames
\* after the cursor ran past the end of a spline without repeat.
C17_SearchLeavesLoadedSegment == last.ok149

\* A frame re-initialised an index that ran past the end of a spline
\* without repeat.
C17_Witness ==
  /\ last.op = "AdvanceFrame" /\ last.index = 1
  /\ \E i \in Indexes :
       /\ Active(i) /\ ~sources_[i].repeat
       /\ sources_[i].x_index = kAfterSplineIndex
       /\ cubic_xs_[i] > 0

----------------------------------------------------------------------------
(* C18 *)

\* C18: in an AdvanceFrame the loaded segment of an index on a spline
\* without repeat never becomes an earlier segment (the region past the end
\* is later than every segment); on a repeating spline it becomes an
\* earlier one only in a frame that wrapped around, that is, took the
\* position to or past the end of the spline and subtracted its length.
C18_SegmentsForward ==
  [][last'.op = "AdvanceFrame" =>
       \A i \in Indexes :
         LET s   == sources_[i]
             new == sources_'[i].x_index
         IN  (Active(i) /\ new < s.x_index) =>
               /\ s.repeat
               /\ Position[i] + last'.arg >= LengthX(s.spline)
               /\ Position'[i] = Position[i] + last'.arg - LengthX(s.spline)]_vars

\* A frame took a repeating index from the last segment round to the first.
C18_Witness ==
  /\ last.op = "AdvanceFrame" /\ last.index = 1
  /\ \E i \in Indexes :
       /\ sources_[i] = [spline |-> "skip", x_index |-> 0, repeat |-> TRUE]
       /\ Position[i] = cubic_xs_[i]

----------------------------------------------------------------------------
(* C19 *)

\* The columns of index i of a store.
SlotOf(S, i) ==
  [source |-> S.sources_[i], y_range |-> S.y_ranges_[i], x |-> S.cubic_xs_[i],
   x_end |-> S.cubic_x_ends_[i], cubic |-> S.cubics_[i], y |-> S.ys_[i]]

\* A store of one index that agrees with the current store on index i.
Solo(i) ==
  [sources_ |-> [k \in {0} |-> sources_[i]],
   y_ranges_ |-> [k \in {0} |-> y_ranges_[i]],
   cubic_xs_ |-> [k \in {0} |-> cubic_xs_[i]],
   cubic_x_ends_ |-> [k \in {0} |-> cubic_x_ends_[i]],
   cubics_ |-> [k \in {0} |-> cubics_[i]],
   ys_ |-> [k \in {0} |-> ys_[i]],
   scratch_ |-> [b \in 0..1 |-> 0],
   ok149 |-> TRUE, ok189 |-> TRUE]

\* C19: what AdvanceFrame(delta_x) makes of index i depends on the columns
\* of index i alone: under either advance strategy it is what the frame
\* makes of a store that holds that index only, whatever the number and
\* state of the other indices; and SetSpline on another index leaves index
\* i as it was.
C19_SlotsIndependent ==
  [][/\ last'.op = "AdvanceFrame" =>
          \A i \in Indexes : \A opt \in {"C", "Neon"} :
            SlotOf(AdvanceFrame(Store, last'.arg, opt, bigEndian).S, i)
              = SlotOf(AdvanceFrame(Solo(i), last'.arg, opt, bigEndian).S, 0)
     /\ last'.op = "AdvanceFrame" =>
          \A i \in Indexes :
            Slots'[i] = SlotOf(AdvanceFrame(Solo(i), last'.arg, "C", bigEndian).S, 0)
     /\ last'.op = "SetSpline" =>
          \A i \in Indexes : i # last'.index => Slots'[i] = Slots[i]]_vars

----------------------------------------------------------------------------
(* C20 *)

\* C20: in UpdateCubicXs_TwoSteps the mask of n bytes placed at entry n / 2
\* of the buffer of n 16-bit entries lies inside the buffer, no more than n
\* entries are written, and no write of ConvertMaskToIndices reaches a mask
\* byte before it is read: the value read for every mask[i] is the value
\* the mask pass wrote.
C20_MaskReadIntact ==
  [][last'.op = "AdvanceFrame" =>
       LET n     == NumIndices
           masks == 2 * (n \div 2)
           m     == UpdateCubicXsAndGetMask(cubic_xs_, cubic_x_ends_, last'.arg,
                                            scratch_, masks, optimization_)
           c     == ConvertMaskToIndices(m.buf, masks, n, 0, 0, bigEndian)
       IN  /\ \A i \in 0..(n - 1) : (masks + i) \in DOMAIN scratch_
           /\ c.num <= n
           /\ DOMAIN c.buf = DOMAIN scratch_
           /\ \A i \in 0..(n - 1) : c.reads[i + 1] = m.buf[masks + i]]_vars

====
